---------------------------- MODULE Spec2Model ----------------------------
(***************************************************************************)
(* The session store, the process bridge and the renderer's session        *)
(* controller of the Electron application.                                 *)
(*                                                                         *)
(*   main process  (src/src/main/main.ts):  the ipcMain handlers           *)
(*     'gemini-command', 'sessions:create', 'sessions:load-all',           *)
(*     'sessions:load-one', 'sessions:save', 'sessions:delete' and the     *)
(*     child-process callbacks they register.                              *)
(*   renderer      (src/src/renderer/App.tsx): the App component's state   *)
(*     and handlers.                                                       *)
(*                                                                         *)
(* The two processes talk over two FIFO channels: toMain carries what the  *)
(* renderer sends (sendMessage, invoke), toRenderer carries what the main  *)
(* process sends (event.sender.send, the resolved value of an invoke).     *)
(* Each handler runs to completion (both event loops are single threaded), *)
(* so each handler is one action; an `await` ends the action and the code  *)
(* after it is the action that consumes the reply.                         *)
(*                                                                         *)
(* JavaScript values: an object is a record, a missing key is a key that   *)
(* is not in the record's DOMAIN, `null` is Null, `undefined` is           *)
(* Undefined.  The content of a Message is a text; texts are tuples so     *)
(* that the text of a chunk names the invocation, the stream and the       *)
(* position that produced it: <<"out", i, n>> is the n-th chunk invocation *)
(* i wrote on stdout.                                                      *)
(***************************************************************************)
EXTENDS Integers, Sequences, FiniteSets

(* ------------------------------ bounds -------------------------------- *)

\* Date.now() takes the values 1..MaxClock.
MaxClock == 2
\* At most MaxInv gemini-command requests are submitted.
MaxInv == 2
\* At most MaxChunks stream events (stdout chunks, stderr chunks, stdin
\* write errors) occur in all child processes together.
MaxChunks == 2
\* The user makes at most MaxOps inputs (clicks, edits of the command field),
\* not counting the clicks that dismiss the delete confirmation.
MaxOps == 5
\* At most MaxToMain messages are in flight from the renderer to main.
MaxToMain == 2
\* At most MaxToRenderer messages are in flight from main to the renderer.
MaxToRenderer == 2

(* ------------------------------ values -------------------------------- *)

Null == [null |-> TRUE]
Undefined == <<"undefined">>

\* The values of Date.now(); a session id is `session-${Date.now()}`.
Ids == 1 .. MaxClock

\* What the user can have typed in the command field.
Texts == {"", " ", "hello"}

\* String.prototype.trim on Texts.
Trim(t) == IF t = " " THEN "" ELSE t

\* The exit statuses of a child process.
ExitCodes == {0, 1}

\* obj[key] in JavaScript: undefined when the key is missing.
Get(obj, key) == IF key \in DOMAIN obj THEN obj[key] ELSE Undefined

Append2(s, a, b) == Append(Append(s, a), b)

(* --------------------- JSON.stringify / JSON.parse -------------------- *)

\* JSON.stringify of a Message: a key whose value is undefined is left out.
StringifyMessage(m) ==
    IF "content" \in DOMAIN m /\ m.content = Undefined
    THEN [type |-> m.type]
    ELSE m

\* JSON.stringify(sessionData, null, 2).  A JSON text is [text |-> v], v
\* being the keys and values the text spells out.
JSONstringify(sessionData) ==
    [text |-> [id      |-> sessionData.id,
               name    |-> sessionData.name,
               history |-> [k \in 1 .. Len(sessionData.history) |->
                               StringifyMessage(sessionData.history[k])]]]

\* What fs.writeFileSync leaves behind when the host dies after the file
\* was opened (and truncated) and before the last byte was written: a strict
\* prefix of the text, the empty text included.
Torn == [torn |-> TRUE]

\* JSON.parse(content) returns; it throws a SyntaxError on a torn text.
Parses(content) == "text" \in DOMAIN content

\* JSON.parse(content): the object the text spells out.
JSONparse(content) == content.text

VARIABLES
    \* ---- main process ----
    files,          \* sessionsPath: id -> the text of <id>.json, or Null
    contexts,       \* the ids that have a working directory under contexts/
    clock,          \* Date.now()
    invocations,    \* the gemini-command requests handled so far, each with
                    \* the state of the child process it spawned
    \* ---- channels ----
    toMain,         \* renderer -> main, FIFO
    toRenderer,     \* main -> renderer, FIFO
    \* ---- renderer (App component) ----
    command,        \* useState('')
    sessions,       \* useState<Session[]>([]): the ids listed in the drawer
    activeSession,  \* useState<Session | null>(null)
    sessionToDelete,\* useState<Session | null>(null): [id |-> its id]
    deleteDialogOpen,
    rendered,       \* the activeSession the last render's closures captured
    renderedSessions, \* the sessions the last render listed in the drawer
    renderedDialogOpen, \* the last render showed the delete confirmation
    \* ---- history variables (not program state) ----
    nCmd,           \* gemini-command requests submitted so far
    nOps,           \* user inputs so far
    lastSaved,      \* id -> the value of the last sessions:save, Null after
                    \*       a create or a delete
    appended        \* the Messages appended to the active session since it
                    \* became active

mainVars == <<files, contexts, clock, invocations>>
chanVars == <<toMain, toRenderer>>
uiVars   == <<command, sessions, activeSession, sessionToDelete,
              deleteDialogOpen, rendered, renderedSessions,
              renderedDialogOpen>>
histVars == <<nCmd, nOps, lastSaved, appended>>
vars     == <<mainVars, chanVars, uiVars, histVars>>

\* The events the children's streams have caused so far: the chunks read
\* from stdout and stderr, and the write errors of stdin.
Chunks == LET n[i \in 0 .. Len(invocations)] ==
                  IF i = 0 THEN 0
                  ELSE n[i - 1] + invocations[i].nOut + invocations[i].nErr
                       + (IF invocations[i].stdinError THEN 1 ELSE 0)
          IN  n[Len(invocations)]

CanSendToMain(k)     == Len(toMain) + k <= MaxToMain
CanSendToRenderer(k) == Len(toRenderer) + k <= MaxToRenderer

Init ==
    /\ files = [i \in Ids |-> Null]
    /\ contexts = {}
    /\ clock = 1
    /\ invocations = <<>>
    /\ toMain = <<[channel |-> "sessions:load-all", cont |-> "mount"]>>
    /\ toRenderer = <<>>
    /\ command = ""
    /\ sessions = {}
    /\ activeSession = Null
    /\ sessionToDelete = Null
    /\ deleteDialogOpen = FALSE
    /\ rendered = Null
    /\ renderedSessions = {}
    /\ renderedDialogOpen = FALSE
    /\ nCmd = 0
    /\ nOps = 0
    /\ lastSaved = [i \in Ids |-> Null]
    /\ appended = {}

(* ============================ main process ============================ *)

\* The wall clock advances.
Tick ==
    /\ clock < MaxClock
    /\ clock' = clock + 1
    /\ UNCHANGED <<files, contexts, invocations, chanVars, uiVars, histVars>>

Reply(to, result, cont) ==
    [channel |-> "reply", to |-> to, result |-> result, cont |-> cont]

\* The handler of an invoke threw: the renderer's promise is rejected.
Rejection(to, cont) ==
    [channel |-> "reply", to |-> to, rejected |-> TRUE, cont |-> cont]
IsRejection(reply) == "rejected" \in DOMAIN reply

\* A faulty variant of NewSessionData: the new session starts with a greeting.
NewSessionDataGreeting(now) ==
    [id |-> now, name |-> now,
     history |-> <<[type |-> "response", content |-> <<"cmd", "hello">>]>>]

\* ipcMain.handle('sessions:create')
NewSessionData(now) == [id |-> now, name |-> now, history |-> <<>>]

HandleSessionsCreate ==
    /\ toMain # <<>>
    /\ Head(toMain).channel = "sessions:create"
    /\ CanSendToRenderer(1)
    /\ LET sessionData == NewSessionData(clock) IN
        /\ files' = [files EXCEPT ![sessionData.id] = JSONstringify(sessionData)]
        /\ lastSaved' = [lastSaved EXCEPT ![sessionData.id] = Null]
        /\ toRenderer' = Append(toRenderer,
                                Reply("sessions:create", sessionData, Null))
    /\ toMain' = Tail(toMain)
    /\ UNCHANGED <<contexts, clock, invocations, uiVars, nCmd, nOps, appended>>

\* ipcMain.handle('sessions:load-all'): the ids of the records read.  The
\* callback of map throws when JSON.parse throws, and so does the handler.
LoadAllThrows(fs) == \E i \in Ids : fs[i] # Null /\ ~Parses(fs[i])
LoadAll(fs) == {i \in Ids : fs[i] # Null /\ JSONparse(fs[i]) # Null}

HandleSessionsLoadAll ==
    /\ toMain # <<>>
    /\ Head(toMain).channel = "sessions:load-all"
    /\ CanSendToRenderer(1)
    /\ toRenderer' = Append(toRenderer,
                            IF LoadAllThrows(files)
                            THEN Rejection("sessions:load-all", Head(toMain).cont)
                            ELSE Reply("sessions:load-all", LoadAll(files),
                                       Head(toMain).cont))
    /\ toMain' = Tail(toMain)
    /\ UNCHANGED <<mainVars, uiVars, histVars>>

\* ipcMain.handle('sessions:load-one')
LoadOneThrows(fs, sessionId) == fs[sessionId] # Null /\ ~Parses(fs[sessionId])
LoadOne(fs, sessionId) ==
    IF fs[sessionId] # Null THEN JSONparse(fs[sessionId]) ELSE Null

HandleSessionsLoadOne ==
    /\ toMain # <<>>
    /\ Head(toMain).channel = "sessions:load-one"
    /\ CanSendToRenderer(1)
    /\ toRenderer' = Append(toRenderer,
                            IF LoadOneThrows(files, Head(toMain).sessionId)
                            THEN Rejection("sessions:load-one", Null)
                            ELSE Reply("sessions:load-one",
                                       LoadOne(files, Head(toMain).sessionId),
                                       Null))
    /\ toMain' = Tail(toMain)
    /\ UNCHANGED <<mainVars, uiVars, histVars>>

\* A faulty variant of SaveFile: the history is merged into the record on disk.
SaveFileMerge(fs, sessionData) ==
    [fs EXCEPT ![sessionData.id] =
        IF @ = Null THEN JSONstringify(sessionData)
        ELSE JSONstringify([sessionData EXCEPT
                 !.history = JSONparse(fs[sessionData.id]).history \o @])]

\* ipcMain.on('sessions:save'): fs.writeFileSync of the whole record.
SaveFile(fs, sessionData) ==
    [fs EXCEPT ![sessionData.id] = JSONstringify(sessionData)]

HandleSessionsSave ==
    /\ toMain # <<>>
    /\ Head(toMain).channel = "sessions:save"
    /\ LET sessionData == Head(toMain).sessionData IN
        /\ files' = SaveFile(files, sessionData)
        /\ lastSaved' = [lastSaved EXCEPT ![sessionData.id] = sessionData]
    /\ toMain' = Tail(toMain)
    /\ UNCHANGED <<contexts, clock, invocations, toRenderer, uiVars, nCmd, nOps, appended>>

\* A faulty variant of DeleteExists: the file is taken to exist.
DeleteExistsAlways(fs, sessionId) == TRUE

\* ipcMain.handle('sessions:delete')
DeleteExists(fs, sessionId) == fs[sessionId] # Null
DeleteFile(fs, sessionId) == [fs EXCEPT ![sessionId] = Null]

HandleSessionsDelete ==
    /\ toMain # <<>>
    /\ Head(toMain).channel = "sessions:delete"
    /\ CanSendToRenderer(1)
    /\ LET sessionId == Head(toMain).sessionId IN
        IF DeleteExists(files, sessionId)
        THEN /\ files' = DeleteFile(files, sessionId)
             /\ lastSaved' = [lastSaved EXCEPT ![sessionId] = Null]
             /\ toRenderer' = Append(toRenderer,
                    Reply("sessions:delete", TRUE, Head(toMain).cont))
        ELSE /\ toRenderer' = Append(toRenderer,
                    Reply("sessions:delete", FALSE, Head(toMain).cont))
             /\ UNCHANGED <<files, lastSaved>>
    /\ toMain' = Tail(toMain)
    /\ UNCHANGED <<contexts, clock, invocations, uiVars, nCmd, nOps, appended>>

(* ------------------------------ host crash ---------------------------- *)
(* The host dies while a handler is inside fs.writeFileSync, and the user   *)
(* starts the application again.  The file is as it was (the host died      *)
(* before the file was opened), torn, or whole (it died after the last      *)
(* byte).  Nothing in memory survives: the window is built anew and its     *)
(* mount effect asks for the sessions; the handlers that forwarded the      *)
(* children's output are gone with the host.                                *)

WriteOutcomes(fs, sessionData) ==
    {fs, [fs EXCEPT ![sessionData.id] = Torn], SaveFile(fs, sessionData)}

Relaunch ==
    /\ nOps < MaxOps
    /\ nOps' = nOps + 1
    /\ invocations' = <<>>
    /\ toMain' = <<[channel |-> "sessions:load-all", cont |-> "mount"]>>
    /\ toRenderer' = <<>>
    /\ command' = ""
    /\ sessions' = {}
    /\ activeSession' = Null
    /\ sessionToDelete' = Null
    /\ deleteDialogOpen' = FALSE
    /\ rendered' = Null
    /\ renderedSessions' = {}
    /\ renderedDialogOpen' = FALSE
    /\ appended' = {}
    /\ UNCHANGED <<contexts, clock, nCmd>>

\* The host dies in the writeFileSync of sessions:create.
CrashInSessionsCreate ==
    /\ toMain # <<>>
    /\ Head(toMain).channel = "sessions:create"
    /\ LET sessionData == NewSessionData(clock) IN
        /\ files' \in WriteOutcomes(files, sessionData)
        /\ lastSaved' = IF files' = files THEN lastSaved
                        ELSE [lastSaved EXCEPT ![sessionData.id] = Null]
    /\ Relaunch

\* The host dies in the writeFileSync of sessions:save.
CrashInSessionsSave ==
    /\ toMain # <<>>
    /\ Head(toMain).channel = "sessions:save"
    /\ LET sessionData == Head(toMain).sessionData IN
        /\ files' \in WriteOutcomes(files, sessionData)
        /\ lastSaved' = IF files' = files THEN lastSaved
                        ELSE [lastSaved EXCEPT ![sessionData.id] =
                                 IF files'[sessionData.id] = Torn
                                 THEN Null ELSE sessionData]
    /\ Relaunch

(* =========================== process bridge =========================== *)

\* A gemini-response message; `inv` is a history field (the request whose
\* handler or child process sent it), no part of what the renderer receives.
GeminiResponse(response, inv) ==
    [channel |-> "gemini-response", response |-> response, inv |-> inv]

SendAll(chan, responses, inv) ==
    chan \o [k \in 1 .. Len(responses) |-> GeminiResponse(responses[k], inv)]

\* A faulty variant of NpxMissingEvent: the failure is reported as a close event.
NpxMissingAsClose(inv) == [type |-> "close", code |-> 1]

\* The payloads event.sender.send is called with.
NpxMissingEvent(inv) == [type |-> "error", content |-> <<"npx", inv>>]
StdoutEvent(chunk)   == [type |-> "data", content |-> chunk]
StderrEvent(chunk)   == [type |-> "error", content |-> chunk]
SpawnErrorEvent(inv) == [type |-> "error", content |-> <<"spawn", inv>>]
StdinErrorEvent(inv) == [type |-> "error", content |-> <<"stdin", inv>>]
\* A faulty variant of OnCloseSends: the close event does not forward the code.
OnCloseSendsZero(code) == <<[type |-> "close", code |-> 0]>>

\* geminiProcess.on('close'): what the handler sends for one 'close'.
OnCloseSends(code)   == <<[type |-> "close", code |-> code]>>

\* The code Node passes to 'close' after a failed spawn (a negative errno).
SpawnErrno == 0 - 2

\* A faulty variant of Started: a request is dropped while a child of its
\* session runs.
StartedExclusive(invs, new) ==
    IF \E i \in 1 .. Len(invs) :
          invs[i].sessionId = new.sessionId /\ invs[i].state = "running"
    THEN invs
    ELSE Append(invs, new)

\* The handler keeps no table of the children it started: every request
\* gets a child of its own.
Started(invs, new) == Append(invs, new)

\* ipcMain.on('gemini-command').  fs.existsSync(npxPath) and the outcome of
\* spawn are the environment's; state "spawning" is a child whose spawn has
\* failed and whose 'error' event is still to be delivered.
HandleGeminiCommand ==
    /\ toMain # <<>>
    /\ Head(toMain).channel = "gemini-command"
    /\ LET req == Head(toMain)
           inv == Len(invocations) + 1
           New(state) == [sessionId |-> req.sessionId, command |-> req.command,
                          state |-> state, nOut |-> 0, nErr |-> 0,
                          code |-> Null, closes |-> 0, errors |-> 0,
                          stdinError |-> FALSE, dropped |-> 0]
       IN
        /\ contexts' = contexts \cup {req.sessionId}
        /\ \/ \* !fs.existsSync(npxPath): reply the error and return
              /\ CanSendToRenderer(1)
              /\ toRenderer' = SendAll(toRenderer, <<NpxMissingEvent(inv)>>, inv)
              /\ invocations' = Started(invocations,
                                        [New("nonpx") EXCEPT !.errors = 1])
           \/ \* spawn starts the child; the command is written to its stdin
              /\ invocations' = Started(invocations, New("running"))
              /\ UNCHANGED toRenderer
           \/ \* spawn fails: Node emits 'error' on the next tick
              /\ invocations' = Started(invocations, New("spawning"))
              /\ UNCHANGED toRenderer
    /\ toMain' = Tail(toMain)
    /\ UNCHANGED <<files, clock, uiVars, histVars>>

\* geminiProcess.stdout.on('data')
StdoutData(i) ==
    /\ invocations[i].state = "running"
    /\ Chunks < MaxChunks
    /\ CanSendToRenderer(1)
    /\ LET chunk == <<"out", i, invocations[i].nOut + 1>> IN
        /\ toRenderer' = SendAll(toRenderer, <<StdoutEvent(chunk)>>, i)
        /\ invocations' = [invocations EXCEPT ![i].nOut = @ + 1]
    /\ UNCHANGED <<files, contexts, clock, toMain, uiVars, histVars>>

\* geminiProcess.stderr.on('data')
StderrData(i) ==
    /\ invocations[i].state = "running"
    /\ Chunks < MaxChunks
    /\ CanSendToRenderer(1)
    /\ LET chunk == <<"err", i, invocations[i].nErr + 1>> IN
        /\ toRenderer' = SendAll(toRenderer, <<StderrEvent(chunk)>>, i)
        /\ invocations' = [invocations EXCEPT ![i].nErr = @ + 1]
    /\ UNCHANGED <<files, contexts, clock, toMain, uiVars, histVars>>

\* geminiProcess.on('error'): the spawn failed.
OnError(i) ==
    /\ invocations[i].state = "spawning"
    /\ CanSendToRenderer(1)
    /\ toRenderer' = SendAll(toRenderer, <<SpawnErrorEvent(i)>>, i)
    /\ invocations' = [invocations EXCEPT ![i].state = "failed",
                                          ![i].errors = @ + 1]
    /\ UNCHANGED <<files, contexts, clock, toMain, uiVars, histVars>>

\* geminiProcess.stdin.on('error'), or the catch around stdin.write: the
\* command could not be written.  A child that was started takes its input;
\* the write fails for a child whose spawn failed.
OnStdinError(i) ==
    /\ invocations[i].state \in {"spawning", "failed"}
    /\ ~invocations[i].stdinError
    /\ Chunks < MaxChunks
    /\ CanSendToRenderer(1)
    /\ toRenderer' = SendAll(toRenderer, <<StdinErrorEvent(i)>>, i)
    /\ invocations' = [invocations EXCEPT ![i].stdinError = TRUE]
    /\ UNCHANGED <<files, contexts, clock, toMain, uiVars, histVars>>

\* geminiProcess.on('close').  Node emits 'close' once per child, after the
\* child has ended and its stdio streams are closed: with the exit status of
\* a child that ran, and, after a failed spawn's 'error', with the errno.
OnClose(i) ==
    /\ invocations[i].state \in {"running", "failed"}
    /\ \E code \in (IF invocations[i].state = "running"
                     THEN ExitCodes ELSE {SpawnErrno}) :
        LET sends == OnCloseSends(code) IN
        /\ CanSendToRenderer(Len(sends))
        /\ toRenderer' = SendAll(toRenderer, sends, i)
        /\ invocations' = [invocations EXCEPT
              ![i].state = IF @ = "running" THEN "closed" ELSE "failedclosed",
              ![i].code = code,
              ![i].closes = @ + Len(sends)]
    /\ UNCHANGED <<files, contexts, clock, toMain, uiVars, histVars>>

(* ============================== renderer ============================== *)
(* activeSession is the state React holds: every setActiveSession is       *)
(* applied to it in the order of the calls.  `rendered` is the value the   *)
(* closures of the last render captured: handleSendCommand,                *)
(* handleConfirmDelete and the gemini-response listener read that value.   *)
(* A state update made outside a user-interface event (in the listener,    *)
(* after an await) is rendered later, by Render; an update made in a       *)
(* user-interface event is rendered before the event returns.  The delete  *)
(* confirmation is a modal Dialog: while it is shown the rest of the       *)
(* window takes no input.  It is shown from the click that opens it until  *)
(* the render that follows its closing; its own buttons are taken to act   *)
(* only while the state says it is open.                                   *)

\* React commits a render: handlers and the listener capture activeSession.
Render ==
    /\ \/ rendered # activeSession
       \/ renderedSessions # sessions
       \/ renderedDialogOpen # deleteDialogOpen
    /\ rendered' = activeSession
    /\ renderedSessions' = sessions
    /\ renderedDialogOpen' = deleteDialogOpen
    /\ UNCHANGED <<mainVars, chanVars, command, sessions, activeSession,
                   sessionToDelete, deleteDialogOpen, histVars>>

\* One more user input, within the bound.
UserInput == nOps < MaxOps /\ nOps' = nOps + 1

\* onChange={(e) => setCommand(e.target.value)}; the field is disabled
\* while no session is active.
TypeCommand(t) ==
    /\ ~renderedDialogOpen
    /\ UserInput
    /\ rendered # Null
    /\ t # command
    /\ command' = t
    /\ UNCHANGED <<mainVars, chanVars, sessions, activeSession, sessionToDelete,
                   deleteDialogOpen, rendered, renderedSessions, renderedDialogOpen, nCmd, lastSaved, appended>>

SaveMsg(sessionData) == [channel |-> "sessions:save", sessionData |-> sessionData]

\* A faulty variant of AppendMessage: the new Message is put first.
AppendMessagePrepend(history, newMessage) == <<newMessage>> \o history

\* [...history, newMessage]
AppendMessage(history, newMessage) == Append(history, newMessage)

\* handleSendCommand
CommandMessage(text) == [type |-> "command", content |-> <<"cmd", text>>]

GeminiCommandMsg(text, sessionId) ==
    [channel |-> "gemini-command", command |-> text, sessionId |-> sessionId]

\* A faulty variant of SubmitSends: the process is asked for before the save.
SubmitSendsSpawnFirst(updatedSession, text) ==
    <<GeminiCommandMsg(text, updatedSession.id), SaveMsg(updatedSession)>>

\* The two sendMessage calls of handleSendCommand, in their order.
SubmitSends(updatedSession, text) ==
    <<SaveMsg(updatedSession), GeminiCommandMsg(text, updatedSession.id)>>

HandleSendCommand ==
    /\ ~renderedDialogOpen
    /\ IF Trim(command) # "" /\ rendered # Null
       THEN LET newMessage == CommandMessage(command)
                updatedSession ==
                    [rendered EXCEPT
                        !.history = AppendMessage(rendered.history, newMessage)]
            IN  /\ nCmd < MaxInv
                /\ UserInput
                /\ CanSendToMain(2)
                /\ activeSession' = updatedSession
                /\ rendered' = updatedSession
                /\ renderedSessions' = sessions
                /\ toMain' = toMain \o SubmitSends(updatedSession, command)
                /\ command' = ""
                /\ nCmd' = nCmd + 1
                /\ appended' = appended \cup {newMessage}
                /\ UNCHANGED <<mainVars, toRenderer, sessions, sessionToDelete,
                               deleteDialogOpen, renderedDialogOpen, lastSaved>>
       ELSE UNCHANGED vars

\* handleCreateSession, up to the await
HandleCreateSession ==
    /\ ~renderedDialogOpen
    /\ UserInput
    /\ CanSendToMain(1)
    /\ toMain' = Append(toMain, [channel |-> "sessions:create"])
    /\ UNCHANGED <<mainVars, toRenderer, uiVars, nCmd, lastSaved, appended>>

\* handleCreateSession, after the await
CreateResolved ==
    /\ toRenderer # <<>>
    /\ Head(toRenderer).channel = "reply"
    /\ Head(toRenderer).to = "sessions:create"
    /\ LET newSession == Head(toRenderer).result IN
        /\ sessions' = sessions \cup {newSession.id}
        /\ activeSession' = newSession
    /\ appended' = {}
    /\ toRenderer' = Tail(toRenderer)
    /\ UNCHANGED <<mainVars, toMain, command, sessionToDelete, deleteDialogOpen,
                   rendered, renderedSessions, renderedDialogOpen, nCmd, nOps, lastSaved>>

\* handleSelectSession, up to the await
HandleSelectSession(sessionId) ==
    /\ ~renderedDialogOpen
    /\ UserInput
    /\ sessionId \in renderedSessions
    /\ CanSendToMain(1)
    /\ toMain' = Append(toMain, [channel |-> "sessions:load-one",
                                 sessionId |-> sessionId])
    /\ UNCHANGED <<mainVars, toRenderer, uiVars, nCmd, lastSaved, appended>>

\* handleSelectSession, after the await
SelectResolved ==
    /\ toRenderer # <<>>
    /\ Head(toRenderer).channel = "reply"
    /\ Head(toRenderer).to = "sessions:load-one"
    /\ IF IsRejection(Head(toRenderer))
       THEN \* the await throws: setActiveSession is not reached
            UNCHANGED <<activeSession, appended>>
       ELSE /\ activeSession' = Head(toRenderer).result
            /\ appended' = {}
    /\ toRenderer' = Tail(toRenderer)
    /\ UNCHANGED <<mainVars, toMain, command, sessions, sessionToDelete,
                   deleteDialogOpen, rendered, renderedSessions, renderedDialogOpen, nCmd, nOps, lastSaved>>

\* handleDeleteClick
HandleDeleteClick(sessionId) ==
    /\ ~renderedDialogOpen
    /\ UserInput
    /\ sessionId \in renderedSessions
    /\ sessionToDelete' = [id |-> sessionId]
    /\ deleteDialogOpen' = TRUE
    /\ renderedDialogOpen' = TRUE
    /\ UNCHANGED <<mainVars, chanVars, command, sessions, activeSession,
                   rendered, renderedSessions, nCmd, lastSaved, appended>>

\* handleCancelDelete.  Dismissing the dialog is not counted as an input.
HandleCancelDelete ==
    /\ deleteDialogOpen
    /\ nOps' = nOps
    /\ deleteDialogOpen' = FALSE
    /\ renderedDialogOpen' = FALSE
    /\ sessionToDelete' = Null
    /\ UNCHANGED <<mainVars, chanVars, command, sessions, activeSession,
                   rendered, renderedSessions, nCmd, lastSaved, appended>>

\* activeSession?.id
IdOf(session) == IF session = Null THEN 0 ELSE session.id

\* handleConfirmDelete, up to the first await.  cont holds the variables
\* the rest of the function reads from its closure.
HandleConfirmDelete ==
    /\ deleteDialogOpen
    /\ UserInput
    /\ sessionToDelete # Null
    /\ CanSendToMain(1)
    /\ toMain' = Append(toMain,
                        [channel |-> "sessions:delete",
                         sessionId |-> sessionToDelete.id,
                         cont |-> [sessionToDelete |-> sessionToDelete.id,
                                   activeId |-> IdOf(rendered)]])
    /\ UNCHANGED <<mainVars, toRenderer, uiVars, nCmd, lastSaved, appended>>

\* handleConfirmDelete, from the first await to the second
DeleteResolved ==
    /\ toRenderer # <<>>
    /\ Head(toRenderer).channel = "reply"
    /\ Head(toRenderer).to = "sessions:delete"
    /\ LET success == Head(toRenderer).result
           cont    == Head(toRenderer).cont
       IN  IF success
           THEN /\ CanSendToMain(1)
                /\ IF cont.activeId = cont.sessionToDelete
                   THEN activeSession' = Null /\ appended' = {}
                   ELSE UNCHANGED <<activeSession, appended>>
                /\ toMain' = Append(toMain, [channel |-> "sessions:load-all",
                                             cont |-> "delete"])
                /\ UNCHANGED <<deleteDialogOpen, sessionToDelete>>
           ELSE /\ deleteDialogOpen' = FALSE
                /\ sessionToDelete' = Null
                /\ UNCHANGED <<activeSession, appended, toMain>>
    /\ toRenderer' = Tail(toRenderer)
    /\ UNCHANGED <<mainVars, command, sessions, rendered, renderedSessions, renderedDialogOpen, nCmd, nOps, lastSaved>>

\* loadSessions after its await, and the rest of handleConfirmDelete when
\* it is the caller
LoadAllResolved ==
    /\ toRenderer # <<>>
    /\ Head(toRenderer).channel = "reply"
    /\ Head(toRenderer).to = "sessions:load-all"
    /\ IF IsRejection(Head(toRenderer))
       THEN \* the await in loadSessions throws, and with it the await in
            \* handleConfirmDelete: neither function goes on
            UNCHANGED <<sessions, deleteDialogOpen, sessionToDelete>>
       ELSE /\ sessions' = Head(toRenderer).result
            /\ IF Head(toRenderer).cont = "delete"
               THEN deleteDialogOpen' = FALSE /\ sessionToDelete' = Null
               ELSE UNCHANGED <<deleteDialogOpen, sessionToDelete>>
    /\ toRenderer' = Tail(toRenderer)
    /\ UNCHANGED <<mainVars, toMain, command, activeSession, rendered, renderedSessions, renderedDialogOpen, histVars>>

\* The Message the gemini-response listener builds.
NewMessage(response) ==
    [type    |-> IF response.type = "data" THEN "response" ELSE "error",
     content |-> Get(response, "content")]

\* A faulty variant of Updater: with no session, the Message is kept in a
\* session made for it.
UpdaterKeepsMessage(prev, newMessage) ==
    IF prev = Null
    THEN [id |-> 1, name |-> 1, history |-> <<newMessage>>]
    ELSE [prev EXCEPT !.history = AppendMessage(prev.history, newMessage)]

\* The value of the updater the listener passes to setActiveSession.
Updater(prev, newMessage) ==
    IF prev = Null
    THEN Null
    ELSE [prev EXCEPT !.history = AppendMessage(prev.history, newMessage)]

\* The gemini-response listener.  The field `dropped` of an invocation is a
\* history field: the events of the invocation the listener received while
\* no session was active.
OnGeminiResponse ==
    /\ toRenderer # <<>>
    /\ Head(toRenderer).channel = "gemini-response"
    /\ LET response   == Head(toRenderer).response
           newMessage == NewMessage(response)
       IN  IF rendered = Null
           THEN \* if (!activeSession) return;
                UNCHANGED <<activeSession, toMain, appended>>
           ELSE /\ activeSession' = Updater(activeSession, newMessage)
                /\ IF activeSession = Null
                   THEN \* if (!prev) return null;
                        UNCHANGED <<toMain, appended>>
                   ELSE /\ CanSendToMain(1)
                        /\ toMain' = Append(toMain, SaveMsg(activeSession'))
                        /\ appended' = appended \cup {newMessage}
    /\ invocations' =
          IF activeSession = Null
          THEN [invocations EXCEPT ![Head(toRenderer).inv].dropped = @ + 1]
          ELSE invocations
    /\ toRenderer' = Tail(toRenderer)
    /\ UNCHANGED <<files, contexts, clock, command, sessions, sessionToDelete,
                   deleteDialogOpen, rendered, renderedSessions, renderedDialogOpen, nCmd, nOps,
                   lastSaved>>

(* ============================ specification =========================== *)

Next ==
    \/ Tick
    \/ HandleSessionsCreate
    \/ HandleSessionsLoadAll
    \/ HandleSessionsLoadOne
    \/ HandleSessionsSave
    \/ HandleSessionsDelete
    \/ HandleGeminiCommand
    \/ \E i \in 1 .. Len(invocations) : StdoutData(i)
    \/ \E i \in 1 .. Len(invocations) : StderrData(i)
    \/ \E i \in 1 .. Len(invocations) : OnError(i)
    \/ \E i \in 1 .. Len(invocations) : OnStdinError(i)
    \/ \E i \in 1 .. Len(invocations) : OnClose(i)
    \/ Render
    \/ \E t \in Texts : TypeCommand(t)
    \/ HandleSendCommand
    \/ HandleCreateSession
    \/ CreateResolved
    \/ \E id \in Ids : HandleSelectSession(id)
    \/ SelectResolved
    \/ \E id \in Ids : HandleDeleteClick(id)
    \/ HandleCancelDelete
    \/ HandleConfirmDelete
    \/ DeleteResolved
    \/ LoadAllResolved
    \/ OnGeminiResponse

Spec == Init /\ [][Next]_vars

\* The application with a host that can die inside a write of the store.
CrashNext ==
    \/ Next
    \/ CrashInSessionsCreate
    \/ CrashInSessionsSave

CrashSpec == Init /\ [][CrashNext]_vars

(* ============================== properties ============================ *)

\* The histories a session id has: the renderer's working copy and the
\* persisted record.
WorkingHistory(id) ==
    IF activeSession # Null /\ activeSession.id = id
    THEN activeSession.history ELSE <<>>
PersistedHistory(id) ==
    IF files[id] # Null /\ Parses(files[id])
    THEN JSONparse(files[id]).history ELSE <<>>

Contents(history) ==
    [k \in 1 .. Len(history) |-> Get(history[k], "content")]

\* The text was sent for invocation i (by its child or by its handler).
FromInvocation(content) ==
    content[1] \in {"out", "err", "npx", "spawn", "stdin"}
IsChunk(content) == content[1] \in {"out", "err"}

\* Main handles the request at the head of toMain in this step.
MainHandles(channel) ==
    /\ toMain # <<>>
    /\ Head(toMain).channel = channel
    /\ toMain' = Tail(toMain)
\* The renderer consumes the message at the head of toRenderer in this step.
RendererConsumes(channel) ==
    /\ toRenderer # <<>>
    /\ Head(toRenderer).channel = channel
    /\ toRenderer' = Tail(toRenderer)
\* The reply main sent in this step.
Replied == toRenderer'[Len(toRenderer')]

NoSaveInFlight ==
    \A k \in 1 .. Len(toMain) : toMain[k].channel # "sessions:save"

(* ---- C1 ---- *)
\* The history of session id holds a text sent for an invocation that was
\* started for another session.
Leaks(history, id) ==
    \E k \in 1 .. Len(history) :
        LET c == Get(history[k], "content") IN
        FromInvocation(c) /\ invocations[c[2]].sessionId # id

\* C1 (session isolation): no history of a session, working copy or
\* persisted record, holds a Message whose text was sent for an invocation
\* that was started for another session.
C1_SessionIsolation ==
    \A id \in Ids : ~Leaks(WorkingHistory(id), id)
                    /\ ~Leaks(PersistedHistory(id), id)

(* ---- C2 ---- *)
\* C2: every gemini-response event in flight carries a sessionId, the one
\* of the gemini-command request that started its invocation.
C2_EventsTagged ==
    \A k \in 1 .. Len(toRenderer) :
        LET msg == toRenderer[k] IN
        msg.channel = "gemini-response" =>
            /\ "sessionId" \in DOMAIN msg.response
            /\ msg.response.sessionId = invocations[msg.inv].sessionId

(* ---- C3 ---- *)
\* C3: when the renderer receives a close event, no history changes and no
\* sessions:save is sent.
C3_CloseIsInformational ==
    [][(RendererConsumes("gemini-response")
        /\ Head(toRenderer).response.type = "close")
       => (activeSession' = activeSession /\ toMain' = toMain)]_vars

(* ---- C4 ---- *)
\* The chunks of one stream of one invocation are in the order written.
InStreamOrder(contents) ==
    \A a, b \in 1 .. Len(contents) :
        (/\ a < b
         /\ IsChunk(contents[a]) /\ IsChunk(contents[b])
         /\ contents[a][1] = contents[b][1]
         /\ contents[a][2] = contents[b][2])
        => contents[a][3] < contents[b][3]

EventContents ==
    [k \in 1 .. Len(toRenderer) |->
        IF toRenderer[k].channel = "gemini-response"
        THEN Get(toRenderer[k].response, "content") ELSE Undefined]

\* C4 (per-stream order): among the events in flight, and in every history
\* (working copy, persisted record, record in a sessions:save in flight),
\* the chunks one invocation wrote on one stream appear in the order they
\* were written, each once.  Nothing is required between the streams.
C4_PerStreamOrder ==
    /\ InStreamOrder(EventContents)
    /\ \A id \in Ids : /\ InStreamOrder(Contents(WorkingHistory(id)))
                       /\ InStreamOrder(Contents(PersistedHistory(id)))
    /\ \A k \in 1 .. Len(toMain) :
          toMain[k].channel = "sessions:save"
          => InStreamOrder(Contents(toMain[k].sessionData.history))

\* A persisted history holds two chunks of one stream and, between or
\* around them, nothing forbids a chunk of the other stream.
C4_Witness ==
    \E id \in Ids : \E a, b \in 1 .. Len(PersistedHistory(id)) :
        LET cs == Contents(PersistedHistory(id)) IN
        /\ a < b
        /\ cs[a] = <<"out", 1, 1>>
        /\ cs[b] = <<"out", 1, 2>>

(* ---- C5 ---- *)
\* C5: a child that was started sends no close event while it runs and
\* exactly one once it has ended, and every close event of a started child
\* carries the child's exit status.
C5_OneClosePerProcess ==
    /\ \A i \in 1 .. Len(invocations) :
          /\ invocations[i].state = "running" => invocations[i].closes = 0
          /\ invocations[i].state = "closed"  => invocations[i].closes = 1
    /\ \A k \in 1 .. Len(toRenderer) :
          LET msg == toRenderer[k] IN
          (/\ msg.channel = "gemini-response"
           /\ msg.response.type = "close"
           /\ invocations[msg.inv].state = "closed")
          => msg.response.code = invocations[msg.inv].code

\* A child has exited with status 1 and its close event is in flight.
C5_Witness ==
    \E k \in 1 .. Len(toRenderer) :
        LET msg == toRenderer[k] IN
        /\ msg.channel = "gemini-response"
        /\ msg.response.type = "close"
        /\ invocations[msg.inv].state = "closed"
        /\ invocations[msg.inv].code = 1
        /\ invocations[msg.inv].closes = 1

(* ---- C6 ---- *)
\* The invocations whose start failed: the npx check failed ("nonpx"), or
\* spawn failed ("spawning" until the 'error' event, "failed" after it,
\* "failedclosed" once 'close' has followed).
SpawnFailed(i) ==
    invocations[i].state \in {"nonpx", "spawning", "failed", "failedclosed"}

\* C6 as claimed: no close event is ever sent for an invocation whose start
\* failed.
C6_NoCloseAfterSpawnFailure ==
    \A i \in 1 .. Len(invocations) :
        SpawnFailed(i) => invocations[i].closes = 0

\* C6 as amended: a request that fails the npx check gets exactly one error
\* event, with a diagnostic text, and never a close event; a failed spawn
\* gets exactly one error event from the 'error' handler, and at most one
\* close event, after it.
C6_SpawnFailureEvents ==
    /\ \A i \in 1 .. Len(invocations) :
          /\ invocations[i].state = "nonpx"
             => invocations[i].errors = 1 /\ invocations[i].closes = 0
          /\ invocations[i].state = "spawning"
             => invocations[i].errors = 0 /\ invocations[i].closes = 0
          /\ invocations[i].state = "failed"
             => invocations[i].errors = 1 /\ invocations[i].closes = 0
          /\ invocations[i].state = "failedclosed"
             => invocations[i].errors = 1 /\ invocations[i].closes = 1
    /\ \A k \in 1 .. Len(toRenderer) :
          LET msg == toRenderer[k] IN
          (msg.channel = "gemini-response"
           /\ invocations[msg.inv].state = "nonpx")
          => /\ msg.response.type = "error"
             /\ Get(msg.response, "content") # Undefined

\* A request failed the npx check and a later request was handled.
C6_Witness ==
    /\ Len(invocations) = 2
    /\ invocations[1].state = "nonpx"
    /\ invocations[2].state \in {"running", "closed"}

(* ---- C7 ---- *)
\* C7: when sessions:load-one reads an id whose last write was a
\* sessions:create (no save or delete since), the reply is a record with
\* that id and an empty history.
C7_CreateThenLoadOne ==
    [][\A id \in Ids :
          (/\ MainHandles("sessions:load-one")
           /\ Head(toMain).sessionId = id
           /\ files[id] # Null
           /\ lastSaved[id] = Null)
          => /\ Replied.result # Null
             /\ Replied.result.id = id
             /\ Replied.result.history = <<>>]_vars

\* The reply of a load-one of a just created session is in flight.
C7_Witness ==
    \E k \in 1 .. Len(toRenderer) :
        LET msg == toRenderer[k] IN
        /\ msg.channel = "reply"
        /\ msg.to = "sessions:load-one"
        /\ msg.result # Null
        /\ msg.result.history = <<>>
        /\ files[msg.result.id] # Null
        /\ lastSaved[msg.result.id] = Null

(* ---- C8 ---- *)
\* Two sessions are the same value: the same id and name, and histories of
\* the same length whose Messages have the same type and content, in order.
SameSession(a, b) ==
    /\ a # Null
    /\ a.id = b.id
    /\ a.name = b.name
    /\ Len(a.history) = Len(b.history)
    /\ \A k \in 1 .. Len(b.history) :
          /\ a.history[k].type = b.history[k].type
          /\ Get(a.history[k], "content") = Get(b.history[k], "content")

\* Every Message of the session has a content (is a Message of App.tsx).
WellTyped(session) ==
    \A k \in 1 .. Len(session.history) :
        Get(session.history[k], "content") # Undefined

\* C8 (round trip): when sessions:load-one reads an id whose last write was
\* a sessions:save of s, the reply is s, whatever was saved before: the same
\* value, and the same object when s is well typed.
C8_SaveLoadRoundTrip ==
    [][\A id \in Ids :
          (/\ MainHandles("sessions:load-one")
           /\ Head(toMain).sessionId = id
           /\ lastSaved[id] # Null)
          => /\ SameSession(Replied.result, lastSaved[id])
             /\ WellTyped(lastSaved[id]) => Replied.result = lastSaved[id]]_vars

\* A load-one reply in flight returns a record that was saved at least
\* twice (one save per Message).
C8_Witness ==
    \E k \in 1 .. Len(toRenderer) :
        LET msg == toRenderer[k] IN
        /\ msg.channel = "reply"
        /\ msg.to = "sessions:load-one"
        /\ msg.result # Null
        /\ lastSaved[msg.result.id] # Null
        /\ Len(msg.result.history) >= 2

(* ---- C9 ---- *)
\* C9: sessions:delete(id) of an existing record removes it and replies
\* true; of a missing record it replies false; either way no other record
\* changes.  sessions:load-one of a missing record replies null.
C9_Delete ==
    [][/\ \A id \in Ids :
            (MainHandles("sessions:delete") /\ Head(toMain).sessionId = id)
            => /\ files[id] # Null => (files'[id] = Null /\ Replied.result = TRUE)
               /\ files[id] = Null => (files'[id] = Null /\ Replied.result = FALSE)
               /\ \A other \in Ids \ {id} : files'[other] = files[other]
       /\ \A id \in Ids :
            (/\ MainHandles("sessions:load-one")
             /\ Head(toMain).sessionId = id
             /\ files[id] = Null)
            => Replied.result = Null]_vars

\* Two deletes of one id were handled in a row: the replies in flight are
\* true, then false.
C9_Witness ==
    /\ Len(toRenderer) = 2
    /\ toRenderer[1].channel = "reply" /\ toRenderer[1].to = "sessions:delete"
    /\ toRenderer[2].channel = "reply" /\ toRenderer[2].to = "sessions:delete"
    /\ toRenderer[1].cont.sessionToDelete = toRenderer[2].cont.sessionToDelete
    /\ toRenderer[1].result = TRUE
    /\ toRenderer[2].result = FALSE

(* ---- C10 ---- *)
\* C10 (no lost update): when a session is active, no sessions:save is in
\* flight and the last write of its record was a save, every Message that
\* was appended to it since it became active is in the persisted record.
C10_NoLostUpdate ==
    (/\ activeSession # Null
     /\ NoSaveInFlight
     /\ lastSaved[IdOf(activeSession)] # Null)
    => \A m \in appended :
          \E k \in 1 .. Len(PersistedHistory(activeSession.id)) :
              PersistedHistory(activeSession.id)[k] = StringifyMessage(m)

(* ---- C11 ---- *)
\* C11: when handleConfirmDelete resumes with the reply that
\* sessions:delete(id) succeeded, it leaves no session with that id active,
\* also when a selection of id resolved while the request was in flight.
C11_DeleteInvalidatesActive ==
    [][(/\ RendererConsumes("reply")
        /\ Head(toRenderer).to = "sessions:delete"
        /\ Head(toRenderer).result = TRUE)
       => IdOf(activeSession') # Head(toRenderer).cont.sessionToDelete]_vars

(* ---- C12 ---- *)
\* The ids of the well-formed records of the store.
WellFormed(fs) == {i \in Ids : fs[i] # Null /\ Parses(fs[i])}

\* C12: sessions:load-all completes and returns every well-formed session,
\* whatever records the store holds.
C12_LoadAllSkipsMalformed ==
    [][MainHandles("sessions:load-all")
       => /\ ~IsRejection(Replied)
          /\ Replied.result = WellFormed(files)]_vars

(* ---- C13 ---- *)
\* The record the request at the head of toMain writes under id, if any.
PendingWrites(id) ==
    IF toMain = <<>> THEN {}
    ELSE IF Head(toMain).channel = "sessions:create"
              /\ NewSessionData(clock).id = id
         THEN {JSONstringify(NewSessionData(clock))}
    ELSE IF Head(toMain).channel = "sessions:save"
              /\ Head(toMain).sessionData.id = id
         THEN {JSONstringify(Head(toMain).sessionData)}
    ELSE {}

\* C13: a step that changes the record of an id, a crash of the host inside
\* the write included, leaves the whole record the request writes, or no
\* record (sessions:delete): never a part of a record.
C13_WritesAreAtomic ==
    [][\A id \in Ids :
          files'[id] # files[id]
          => files'[id] \in PendingWrites(id) \cup {Null}]_vars

(* ---- C14 ---- *)
\* C14: the id sessions:create returns is the id of no record of the store:
\* a create never writes over the record of an existing session, also when
\* an earlier create was handled in the same clock tick.
C14_CreateAllocatesFreshId ==
    [][MainHandles("sessions:create")
       => files[Replied.result.id] = Null]_vars

(* ---- C15 ---- *)
Last(history) == history[Len(history)]

\* C15 (submit ordering): an accepted submit appends the command Message to
\* the working copy and sends the save of that working copy, then the
\* gemini-command; and when main handles a gemini-command (and starts the
\* process), the persisted history of its session ends with that command.
C15_SaveBeforeSpawn ==
    [][/\ nCmd' = nCmd + 1
          => /\ Last(activeSession'.history) = CommandMessage(command)
             /\ toMain' = Append2(toMain, SaveMsg(activeSession'),
                                  GeminiCommandMsg(command, activeSession'.id))
       /\ MainHandles("gemini-command")
          => LET req == Head(toMain)
                 h   == PersistedHistory(req.sessionId)
             IN  /\ h # <<>>
                 /\ Last(h) = CommandMessage(req.command)]_vars

\* The process of the second command of a session runs, and the persisted
\* history of the session holds both commands, the second one last.
C15_Witness ==
    /\ Len(invocations) = 2
    /\ invocations[1].sessionId = invocations[2].sessionId
    /\ invocations[2].state = "running"
    /\ LET h == PersistedHistory(invocations[2].sessionId) IN
        /\ Len(h) >= 2
        /\ Last(h) = CommandMessage(invocations[2].command)

(* ---- C16 ---- *)
IsPrefix(s, t) ==
    /\ Len(s) <= Len(t)
    /\ \A k \in 1 .. Len(s) : s[k] = t[k]

\* C16 (append-only): every sessions:save of an id that has a record stores
\* a history that has the persisted history as a prefix.
C16_AppendOnly ==
    [][\A id \in Ids :
          (/\ MainHandles("sessions:save")
           /\ Head(toMain).sessionData.id = id
           /\ files[id] # Null)
          => IsPrefix(PersistedHistory(id),
                      JSONstringify(Head(toMain).sessionData).text.history)]_vars

(* ---- C17 ---- *)
\* No save, load or delete is in flight: no such request to main and no
\* reply of one to the renderer.
NoStoreMessageInFlight ==
    /\ \A k \in 1 .. Len(toMain) :
          toMain[k].channel \notin {"sessions:save", "sessions:load-all",
                                    "sessions:load-one", "sessions:delete"}
    /\ \A k \in 1 .. Len(toRenderer) :
          toRenderer[k].channel = "reply"
          => toRenderer[k].to \notin {"sessions:load-all", "sessions:load-one",
                                      "sessions:delete"}

\* C17 (convergence): when no save, load or delete is in flight and a
\* session is active, the record of its id exists and is the text of the
\* working copy.
C17_WorkingCopyConverges ==
    (NoStoreMessageInFlight /\ activeSession # Null)
    => files[activeSession.id] = JSONstringify(activeSession)

(* ---- C18 ---- *)
\* Invocation i has a live child.
Live(i) == invocations[i].state = "running"

\* C18 (no mutual exclusion): whatever children run, main gives every
\* gemini-command request an invocation of its own, bound to the session
\* and working directory of the request, and leaves the earlier invocations
\* as they are.
C18_NoMutualExclusion ==
    [][MainHandles("gemini-command")
       => /\ Len(invocations') = Len(invocations) + 1
          /\ invocations'[Len(invocations')].sessionId = Head(toMain).sessionId
          /\ invocations'[Len(invocations')].command = Head(toMain).command
          /\ Head(toMain).sessionId \in contexts'
          /\ \A i \in 1 .. Len(invocations) :
                invocations'[i] = invocations[i]]_vars

\* Two children of one session run at once, in the same working directory.
C18_Witness ==
    /\ Len(invocations) = 2
    /\ Live(1) /\ Live(2)
    /\ invocations[1].sessionId = invocations[2].sessionId
    /\ invocations[1].sessionId \in contexts

(* ---- C19 ---- *)
\* C19: when the listener receives a bridge event while no session is
\* active, the event leaves the channel and nothing else changes: no
\* working copy, no record, no request to main, nothing that is kept for a
\* session that becomes active later.
C19_DroppedWithoutActiveSession ==
    [][(RendererConsumes("gemini-response") /\ activeSession = Null)
       => /\ activeSession' = Null
          /\ toMain' = toMain
          /\ files' = files
          /\ UNCHANGED <<command, sessions, sessionToDelete, deleteDialogOpen,
                         rendered, renderedSessions, renderedDialogOpen, appended>>]_vars

\* An event was received while no session was active, and no trace of it
\* is left: no session is active, no message is in flight.
C19_Witness ==
    /\ \E i \in 1 .. Len(invocations) : invocations[i].dropped >= 1
    /\ activeSession = Null
    /\ toMain = <<>>
    /\ toRenderer = <<>>

(* ---- C20 ---- *)
\* C20 (a deleted session stays deleted): no sessions:save creates a
\* record.  A session exists in the renderer only after sessions:create
\* wrote its record, so a save that finds no record of its id finds the id
\* of a session that was deleted.
C20_DeletedStaysDeleted ==
    [][MainHandles("sessions:save")
       => files[Head(toMain).sessionData.id] # Null]_vars

(* ---- C21 ---- *)
\* The text is empty or only whitespace.
Blank(text) == text \in {"", " "}

\* C21: a submit has an effect only when a session is active and the
\* command text is not blank (with no active session, or with a blank text,
\* it changes nothing, the command field included); and a submit that has
\* an effect appends one command Message to the working copy it read,
\* sends one sessions:save and one gemini-command, and clears the field.
\* A step in which a gemini-command is submitted is a step that adds one
\* to nCmd.
C21_SubmitFrame ==
    [][nCmd' = nCmd + 1
       => /\ activeSession # Null
          /\ ~Blank(command)
          /\ \E base \in {activeSession, rendered} :
                /\ base # Null
                /\ activeSession' =
                      [base EXCEPT !.history =
                                      Append(@, CommandMessage(command))]
          /\ toMain' = Append2(toMain, SaveMsg(activeSession'),
                               GeminiCommandMsg(command, activeSession'.id))
          /\ command' = ""
          /\ UNCHANGED <<mainVars, toRenderer, sessions, sessionToDelete,
                         deleteDialogOpen>>]_vars

=============================================================================
